---- MODULE Spec2Model ----
(***************************************************************************)
(* Password-reset token lifecycle and session validation of the starter    *)
(* kit.  Two implementations of the reset workflow exist side by side:     *)
(* the AuthService class ("service", src/unnamed/part_007) and the server  *)
(* actions ("action", src/unnamed/part_000).  Both are modelled; the       *)
(* variable impl says which one a behaviour runs.                          *)
(*                                                                         *)
(* Strings whose characters matter (emails, tokens) are tuples of          *)
(* one-character strings, so that ILIKE matching can be computed.          *)
(***************************************************************************)
EXTENDS Integers, Sequences, FiniteSets, TLC

VARIABLES
    impl,       \* "service" (part_007) or "action" (part_000)
    clock,      \* wall clock, in milliseconds (Date.now())
    ticks,      \* number of clock advances so far
    tokens,     \* table password_resets: sequence of records, id = index
    password,   \* identity provider: user id -> current password
    request,    \* the requestPasswordReset invocation in progress, or the last one done
    redeems,    \* resetPassword invocations in flight, one per slot
    returned,   \* the resetPassword invocation returning in this step, if any
    redeemed,   \* history: the tokens presented by calls that returned success
    store,      \* table user_profile as seen by the validator: id -> status
    vcall,      \* the validateUserSession invocation in progress / last done
    provider,   \* which AuthProvider runs: "context" (src/context/AuthContext.tsx)
                \* or "reconnecting" (src/unnamed/part_010)
    local,      \* React state of the provider: session, user, userProfile
    effect,     \* the real-time effect: its phase and the variables of its closure
    channels,   \* every channel subscribed so far: handle = index, value = status
    intervals,  \* every setInterval timer created so far: handle = index
    timeouts,   \* every reconnect setTimeout timer created so far: handle = index
    inbox,      \* change notifications on their way to the channel's handler
    inflight,   \* periodic validations awaiting getUserById
    validated,  \* the periodic validation settling in this step, if any
    logouts,    \* reasons handleUserLogout was invoked with, in order
    navigations,\* redirect timers of handleUserLogout that have fired
    signOuts,   \* calls of authService.signOut
    authEvents, \* sign-out events the auth listener has yet to apply
    rev,        \* revision of the user's row (number of changes made to it)
    auth,       \* the auth-state effect's view: loading, initialized, session, settings
    runs,       \* every run of the auth-state effect that got past its guards
    idp         \* the identity provider: its session and the events it has reported

vars == <<impl, clock, ticks, tokens, password, request, redeems, returned, redeemed,
         store, vcall, provider, local, effect, channels, intervals, timeouts, inbox,
         inflight, validated, logouts, navigations, signOuts, authEvents, rev,
         auth, runs, idp>>

resetVars == <<impl, clock, ticks, tokens, password, request, redeems, returned, redeemed>>
validateVars == <<store, vcall>>
watchVars == <<provider, local, effect, channels, intervals, timeouts, inbox,
               inflight, validated, logouts, navigations, signOuts, authEvents, rev>>
authVars == <<auth, runs, idp>>

----------------------------------------------------------------------------
(* Bounds of the model *)

MaxTokens == 1      \* rows of password_resets
MaxTicks == 2       \* clock advances
MaxRequests == 2    \* requests answered in a run of repeated requests

\* the resetPassword calls that may be in flight at once
Calls == { 1, 2 }

----------------------------------------------------------------------------
(* Data *)

None == [none |-> TRUE]

\* user_profile rows the reset workflow looks up (the core never creates them)
Users == { [id |-> "U1", email |-> <<"a", "@">>],
           [id |-> "U2", email |-> <<"b", "a", "@">>] }

UserIds == { u.id : u \in Users }

\* emails a caller may ask a reset for: both users' and one of nobody
RequestEmails == { <<"a", "@">>, <<"b", "a", "@">>, <<"c", "@">> }

AccountTypes == { "user", "developer" }

NewPasswords == { "p1" }

\* crypto.randomBytes(n).toString("hex"): lower-case hex digits, fixed length,
\* never the same string twice.  Which string comes out matters only through
\* the digits it shares with other strings, so the k-th token generated is
\* the k-th of a fixed list of distinct strings.
RandomHex == << <<"a", "1">>, <<"1", "a">>, <<"1", "1">>, <<"a", "a">> >>

\* strings a caller may present that were never issued
ForgedTokens == { <<"a">> }

\* new Date(Date.now() + 1000 * 60 * 60)
TokenTtlMs == 1000 * 60 * 60

\* the clock advances by one validity period at a time, so that a token is
\* seen before, exactly at and after its expiry instant
TickMs == TokenTtlMs

\* Date.prototype.toISOString keeps whole seconds and milliseconds
ToISOString(t) == [sec |-> t \div 1000, ms |-> t % 1000]

\* new Date(isoString).getTime()
ParseDate(s) == s.sec * 1000 + s.ms

----------------------------------------------------------------------------
(* Record store filters *)

Lower(c) ==
    CASE c = "A" -> "a"
      [] c = "B" -> "b"
      [] c = "C" -> "c"
      [] c = "F" -> "f"
      [] OTHER -> c

\* SQL LIKE with case folding: % matches any run, _ any one character
RECURSIVE ILike(_, _)
ILike(p, s) ==
    IF p = <<>> THEN s = <<>>
    ELSE IF Head(p) = "%"
         THEN ILike(Tail(p), s) \/ (s # <<>> /\ ILike(p, Tail(s)))
    ELSE IF s = <<>> THEN FALSE
    ELSE /\ (Head(p) = "_" \/ Lower(Head(p)) = Lower(Head(s)))
         /\ ILike(Tail(p), Tail(s))

\* BaseService.paginate: `${field}.ilike.%${search}%`, skipped for an empty search
PaginateMatch(search, value) ==
    IF search = <<>> THEN TRUE
    ELSE ILike(<<"%">> \o search \o <<"%">>, value)

\* BaseService.read: query.eq(key, value)
ReadMatch(filter, value) == filter = value

\* the filter each implementation hands to the record store
LookupMatch(i, wanted, value) ==
    IF i = "service" THEN ReadMatch(wanted, value) ELSE PaginateMatch(wanted, value)

TokenRows == { tokens[k] : k \in 1..Len(tokens) }

----------------------------------------------------------------------------
(* Values returned to the caller.  The service returns a ServiceResponse   *)
(* {success, error: {code, message, details}}; the actions return          *)
(* {success, error: message}, modelled with code "" and no details.        *)

Response(ok, code, message, details) ==
    [success |-> ok, code |-> code, message |-> message, details |-> details]

Success == Response(TRUE, "", "", "none")

GenericMessage == "Something went wrong, so please try again later."

\* a catch block that reports success
RequestCatchSwallowed(i, thrown) == Success

\* the catch block of requestPasswordReset
RequestCatch(i, thrown) ==
    IF i = "service"
    THEN Response(FALSE, "AUTH_RESET_REQUEST_ERROR", GenericMessage, thrown)
    ELSE Response(FALSE, "", GenericMessage, "none")

\* the account-type branch taken before any lookup
RequestTypeRefusal(i) ==
    IF i = "service"
    THEN Response(FALSE, "AUTH_RESET_TYPE_ERROR", "Password reset type not supported", "none")
    ELSE Response(FALSE, "", "Developer reset not implemented", "none")

\* no user row came back (the read failed or matched nothing)
RequestNoUser(i) ==
    IF i = "service" THEN Success ELSE RequestCatch(i, "Error: User not found")

\* redemption failures
RedeemFailure(i, code, message, details) ==
    IF i = "service" THEN Response(FALSE, code, message, details)
    ELSE Response(FALSE, "", message, "none")

InvalidToken(i) == RedeemFailure(i, "AUTH_RESET_INVALID_TOKEN", "Invalid or expired token", "none")
TokenUsed(i) == RedeemFailure(i, "AUTH_RESET_TOKEN_USED", "Token already used", "none")
TokenExpired(i) == RedeemFailure(i, "AUTH_RESET_TOKEN_EXPIRED", "Token expired", "none")
UnsupportedType(i) == RedeemFailure(i, "AUTH_RESET_TYPE_ERROR", "Only user type supported", "none")
\* updateUserById returned {error}: its message is passed on
UpdateError(i) == RedeemFailure(i, "AUTH_RESET_UPDATE_ERROR", "identity provider error", "collaborator error")
\* updateUserById threw: the outer catch
UpdateThrew(i) == RedeemFailure(i, "AUTH_RESET_ERROR", "identity provider exception", "collaborator error")

----------------------------------------------------------------------------
(* requestPasswordReset.  Its inputs are drawn where the code first reads *)
(* them.  Requests are taken one at a time: two requests share nothing    *)
(* but the table they append to.                                          *)

IdleRequest ==
    [pc |-> "idle", email |-> <<>>, type |-> "", userId |-> "", token |-> <<>>,
     issuedAt |-> 0, created |-> None, fail |-> "none", response |-> None]

\* rows of user_profile the email filter selects
UserMatches(i, email) == { u \in Users : LookupMatch(i, email, u.email) }

\* expiresAt = new Date(Date.now() + 1000 * 60 * 60), stored as toISOString()
ExpiresAt(now) == ToISOString(now + TokenTtlMs)

\* the row handed to baseService.create
NewTokenRow(id, q) ==
    [id |-> id, user_id |-> q.userId, email |-> q.email, token |-> q.token,
     expires_at |-> ExpiresAt(q.issuedAt), used_at |-> None]

\* the call starts; for type "user" the user_profile query comes back, and on
\* a hit the token and the expiry are computed and the insert is issued
RequestLookup(email, type) ==
    /\ request.pc \in { "idle", "done" }
    /\ Len(tokens) < MaxTokens
    /\ LET q == [IdleRequest EXCEPT !.email = email, !.type = type] IN
       \/ /\ type # "user"
          /\ request' = [q EXCEPT !.pc = "done", !.response = RequestTypeRefusal(impl)]
       \/ \* the read failed (success = false)
          /\ type = "user"
          /\ request' = [q EXCEPT !.pc = "done", !.fail = "lookup",
                                  !.response = RequestNoUser(impl)]
       \/ /\ type = "user"
          /\ UserMatches(impl, email) = {}
          /\ request' = [q EXCEPT !.pc = "done", !.response = RequestNoUser(impl)]
       \/ /\ type = "user"
          /\ \E u \in UserMatches(impl, email) :               \* data[0], no ORDER BY
                request' = [q EXCEPT !.pc = "insert", !.userId = u.id,
                                     !.token = RandomHex[Len(tokens) + 1],
                                     !.issuedAt = clock]
    /\ UNCHANGED <<impl, clock, ticks, tokens, password, redeems, returned, redeemed>>
    /\ UNCHANGED validateVars /\ UNCHANGED watchVars /\ UNCHANGED authVars

RequestInsert ==
    /\ request.pc = "insert"
    /\ \/ /\ tokens' = Append(tokens, NewTokenRow(Len(tokens) + 1, request))
          /\ request' = [request EXCEPT !.pc = "email",
                                        !.created = NewTokenRow(Len(tokens) + 1, request)]
       \/ \* insertResult.success = false: an Error is thrown and caught
          /\ request' = [request EXCEPT !.pc = "done", !.fail = "insert",
                            !.response = RequestCatch(impl, "Error: Failed to store reset token")]
          /\ UNCHANGED tokens
    /\ UNCHANGED <<impl, clock, ticks, password, redeems, returned, redeemed>>
    /\ UNCHANGED validateVars /\ UNCHANGED watchVars /\ UNCHANGED authVars

RequestEmail ==
    /\ request.pc = "email"
    /\ \/ request' = [request EXCEPT !.pc = "done", !.response = Success]
       \/ \* emailService.sendEmail rejected
          request' = [request EXCEPT !.pc = "done", !.fail = "email",
                                     !.response = RequestCatch(impl, "collaborator error")]
    /\ UNCHANGED <<impl, clock, ticks, tokens, password, redeems, returned, redeemed>>
    /\ UNCHANGED validateVars /\ UNCHANGED watchVars /\ UNCHANGED authVars

----------------------------------------------------------------------------
(* resetPassword.  A slot holds one call between its suspension points;   *)
(* in the step in which the call returns, its record is in returned and   *)
(* the slot is free again.  returned is None in every other step.         *)

IdleRedeem ==
    [pc |-> "idle", token |-> <<>>, type |-> "", rec |-> None, checkedAt |-> 0,
     idp |-> "none"]

\* what is known of a call when it returns
Returned(r, type, mark, response) ==
    [token |-> r.token, rec |-> r.rec, type |-> type, checkedAt |-> r.checkedAt,
     idp |-> r.idp, mark |-> mark, response |-> response,
     afterSuccess |-> (r.token \in redeemed)]

\* rows of password_resets the token filter selects
TokenMatches(i, presented) == { r \in TokenRows : LookupMatch(i, presented, r.token) }

\* a comparison that also refuses the expiry instant itself
IsExpiredInclusive(expires_at, now) == ParseDate(expires_at) <= now

\* new Date(tokenData.expires_at) < new Date()
IsExpired(expires_at, now) == ParseDate(expires_at) < now

\* the checks on the row without the check of the account type
RedeemVerdictAnyType(i, rec, type, now) ==
    IF rec = None THEN InvalidToken(i)
    ELSE IF rec.used_at # None THEN TokenUsed(i)
    ELSE IF IsExpired(rec.expires_at, now) THEN TokenExpired(i)
    ELSE None

\* the checks on the row without the check of used_at
RedeemVerdictUsedAllowed(i, rec, type, now) ==
    IF rec = None THEN InvalidToken(i)
    ELSE IF IsExpired(rec.expires_at, now) THEN TokenExpired(i)
    ELSE IF type # "user" THEN UnsupportedType(i)
    ELSE None

\* the checks made on the row that was read, in the order of the code;
\* None means every check passed
RedeemVerdict(i, rec, type, now) ==
    IF rec = None THEN InvalidToken(i)
    ELSE IF rec.used_at # None THEN TokenUsed(i)
    ELSE IF IsExpired(rec.expires_at, now) THEN TokenExpired(i)
    ELSE IF type # "user" THEN UnsupportedType(i)
    ELSE None

\* a call that goes on to the mark-used write whatever updateUserById answered
AfterPasswordUpdateUnchecked(outcome) == "mark"

\* where the call goes once updateUserById has answered
AfterPasswordUpdate(outcome) == IF outcome = "ok" THEN "mark" ELSE "done"

\* what is returned after the mark-used update, whose result is not inspected
AfterMarkUsed(outcome) == Success

\* the call returns r
Return(c, r) ==
    /\ returned' = r
    /\ redeems' = [redeems EXCEPT ![c] = IdleRedeem]
    /\ redeemed' = IF r.response = Success THEN redeemed \cup { r.token } ELSE redeemed

\* the step returns nothing
NoReturn == returned' = None /\ UNCHANGED redeemed

\* the call starts, its password_resets query comes back, and the checks that
\* follow the read are made; the clock is read here.  (What other calls write
\* between the read and the checks is not seen by the checks, so the two are
\* taken in one step.)
RedeemRead(c, token, type) ==
    /\ redeems[c].pc = "idle"
    /\ \E row \in { None } \cup TokenMatches(impl, token) :   \* None: the read failed or
                                                              \* matched nothing; else data[0]
         /\ LET v == RedeemVerdict(impl, row, type, clock)
                r == [IdleRedeem EXCEPT !.token = token, !.type = type, !.rec = row,
                                        !.checkedAt = clock]
            IN  IF v = None
                THEN /\ redeems' = [redeems EXCEPT ![c] = [r EXCEPT !.pc = "idp"]]
                     /\ NoReturn
                ELSE Return(c, Returned(r, type, "none", v))
    /\ UNCHANGED <<impl, clock, ticks, tokens, password, request>>
    /\ UNCHANGED validateVars /\ UNCHANGED watchVars /\ UNCHANGED authVars

\* auth.admin.updateUserById(tokenData.user_id, {password}) answers
RedeemUpdatePassword(c, pw) ==
    /\ redeems[c].pc = "idp"
    /\ \E outcome \in { "ok", "error", "threw" } :
         LET r == [redeems[c] EXCEPT !.idp = outcome] IN
         /\ password' = IF outcome = "ok"
                        THEN [password EXCEPT ![redeems[c].rec.user_id] = pw]
                        ELSE password
         /\ IF AfterPasswordUpdate(outcome) = "done"
            THEN Return(c, Returned(r, r.type, "none",
                                    IF outcome = "threw" THEN UpdateThrew(impl)
                                    ELSE UpdateError(impl)))
            ELSE /\ redeems' = [redeems EXCEPT ![c] = [r EXCEPT !.pc = "mark"]]
                 /\ NoReturn
    /\ UNCHANGED <<impl, clock, ticks, tokens, request>>
    /\ UNCHANGED validateVars /\ UNCHANGED watchVars /\ UNCHANGED authVars

\* an update that reaches every row of the user the token belongs to
MarkUsedOfUser(ts, id, now) ==
    [k \in 1..Len(ts) |->
        IF ts[k].user_id = ts[id].user_id THEN [ts[k] EXCEPT !.used_at = ToISOString(now)]
        ELSE ts[k]]

\* client.from(table).update({used_at}).eq('id', id): the one row with that id
MarkUsed(ts, id, now) == [ts EXCEPT ![id].used_at = ToISOString(now)]

\* baseService.update('password_resets', tokenData.id, {used_at: now}) answers
RedeemMarkUsed(c) ==
    /\ redeems[c].pc = "mark"
    /\ \E outcome \in { "ok", "failed" } :
         /\ tokens' = IF outcome = "ok"
                      THEN MarkUsed(tokens, redeems[c].rec.id, clock)
                      ELSE tokens
         /\ Return(c, Returned(redeems[c], redeems[c].type, outcome,
                                    AfterMarkUsed(outcome)))
    /\ UNCHANGED <<impl, clock, ticks, password, request>>
    /\ UNCHANGED validateVars /\ UNCHANGED watchVars /\ UNCHANGED authVars

\* time passes
Tick ==
    /\ ticks < MaxTicks
    /\ clock' = clock + TickMs
    /\ ticks' = ticks + 1
    /\ NoReturn
    /\ UNCHANGED <<impl, tokens, password, request, redeems>>
    /\ UNCHANGED validateVars /\ UNCHANGED watchVars /\ UNCHANGED authVars

----------------------------------------------------------------------------
(* UserSessionManager.validateUserSession.  "current" is the version in    *)
(* src/utils/user-session-manager.ts, which accepts a ServiceResponse or a *)
(* bare user object from getUserById; "legacy" is src/unnamed/part_013,    *)
(* written for a getUserById that yields the user object or null.          *)

UserRecord(id, active) == [id |-> id, is_active |-> active]

\* what a read of user_profile by id finds: the row, or None (maybeSingle)
RowOf(id) ==
    IF store[id] = "deleted" THEN None ELSE UserRecord(id, store[id] = "active")

\* the values getUserById can resolve to, or "threw" when it rejects
Threw == [kind |-> "threw"]
ServiceOk(data) == [kind |-> "response", success |-> TRUE, data |-> data, code |-> ""]
ServiceFailed(code) == [kind |-> "response", success |-> FALSE, data |-> None, code |-> code]
Direct(user) == [kind |-> "direct", user |-> user]

Invalid(reason, errorCode) ==
    [isValid |-> FALSE, reason |-> reason, errorCode |-> errorCode, user |-> None]
Valid(user) == [isValid |-> TRUE, reason |-> "", errorCode |-> "", user |-> user]

\* the rules in the other order: is_active is read first, which throws on a
\* missing record and ends in the catch block
CheckUserActiveFirst(user, missingReason, errorCodes) ==
    IF user = None
    THEN Invalid("Unable to verify your session", IF errorCodes THEN "VALIDATION_ERROR" ELSE "")
    ELSE IF ~user.is_active
    THEN Invalid("Your account has been deactivated",
                 IF errorCodes THEN "USER_DEACTIVATED" ELSE "")
    ELSE Valid(user)

\* the rules applied to the user object, in the order of the code
CheckUser(user, missingReason, errorCodes) ==
    IF user = None
    THEN Invalid(missingReason, IF errorCodes THEN "USER_NOT_FOUND" ELSE "")
    ELSE IF ~user.is_active
    THEN Invalid("Your account has been deactivated",
                 IF errorCodes THEN "USER_DEACTIVATED" ELSE "")
    ELSE Valid(user)

\* a validator that lets a failed ServiceResponse through
ServiceErrorFailOpen(read) == Valid(read.data)

\* a ServiceResponse with success = false
ServiceError(read) ==
    Invalid("Session validation failed: service error",
            IF read.code # "" THEN read.code ELSE "UNKNOWN_ERROR")

\* the catch block
ValidationCatch(v) ==
    Invalid("Unable to verify your session", IF v = "current" THEN "VALIDATION_ERROR" ELSE "")

ValidateUserSession(v, read) ==
    IF read.kind = "threw" THEN ValidationCatch(v)
    ELSE IF v = "current"
    THEN IF read.kind = "response"
         THEN IF ~read.success THEN ServiceError(read)
              ELSE CheckUser(read.data, "Your account no longer exists", TRUE)
         ELSE CheckUser(read.user, "User account no longer exists", TRUE)
    ELSE CheckUser(read.user, "User account no longer exists", FALSE)

IdleValidate ==
    [pc |-> "idle", version |-> "", shape |-> "", userId |-> "", read |-> None,
     result |-> None]

\* the shapes of getUserById each version is called with
Shapes(v) == IF v = "current" THEN { "response", "direct" } ELSE { "direct" }

\* validateUserSession(userId, getUserById) is called and awaits the read
ValidateStart(v, shape, id) ==
    /\ vcall.pc \in { "idle", "done" }
    /\ shape \in Shapes(v)
    /\ vcall' = [IdleValidate EXCEPT !.pc = "reading", !.version = v, !.shape = shape,
                                     !.userId = id]
    /\ UNCHANGED store /\ UNCHANGED resetVars /\ UNCHANGED watchVars /\ UNCHANGED authVars

\* getUserById settles and the result is computed
ValidateRead ==
    /\ vcall.pc = "reading"
    /\ \E read \in { Threw } \cup
                    (IF vcall.shape = "response"
                     THEN { ServiceOk(RowOf(vcall.userId)) } \cup
                          { ServiceFailed(code) : code \in { "NETWORK_ERROR", "" } }
                     ELSE { Direct(RowOf(vcall.userId)) }) :
          vcall' = [vcall EXCEPT !.pc = "done", !.read = read,
                                 !.result = ValidateUserSession(vcall.version, read)]
    /\ UNCHANGED store /\ UNCHANGED resetVars /\ UNCHANGED watchVars /\ UNCHANGED authVars

\* an administrator changes or removes the row (updateUser, deleteUser)
SetActive(id, active) ==
    /\ store[id] # "deleted"
    /\ store' = [store EXCEPT ![id] = IF active THEN "active" ELSE "inactive"]
    /\ UNCHANGED vcall /\ UNCHANGED resetVars /\ UNCHANGED watchVars /\ UNCHANGED authVars

DeleteUser(id) ==
    /\ store[id] # "deleted"
    /\ store' = [store EXCEPT ![id] = "deleted"]
    /\ UNCHANGED vcall /\ UNCHANGED resetVars /\ UNCHANGED watchVars /\ UNCHANGED authVars

----------------------------------------------------------------------------
(* The revocation watcher: the real-time effect of AuthProvider.  Two      *)
(* versions exist: src/context/AuthContext.tsx subscribes once             *)
(* ("context"); src/unnamed/part_010 re-subscribes after a CHANNEL_ERROR   *)
(* with exponential backoff ("reconnecting").  One live session of one     *)
(* user is followed from the moment the effect runs.                       *)

MaxSetups == 6        \* calls of setupRealTimeSubscription that subscribe
MaxValidations == 1   \* periodic validations in flight at once
MaxLogouts == 2       \* invocations of handleUserLogout
MaxChanges == 1       \* changes made to the user's row

MAX_RECONNECT_ATTEMPTS == 5
INITIAL_RECONNECT_DELAY == 1000

\* the user of the live session
SessionUser == "U1"

\* the row carried by a notification (payload.new)
ChangedRow(active, r) == [id |-> SessionUser, is_active |-> active, rev |-> r]

\* session, user and userProfile after sign-in, and after setSession(null),
\* setUser(null), setUserProfile(null)
SignedIn == [session |-> TRUE, user |-> TRUE, profile |-> ChangedRow(TRUE, 0)]
ClearedState == [session |-> FALSE, user |-> FALSE, profile |-> None]

\* the closure of the effect before setupRealTimeSubscription has run
IdleEffect ==
    [phase |-> "idle", subscription |-> 0, periodicValidation |-> 0, reconnectTimer |-> 0,
     isConnecting |-> FALSE, reconnectAttempts |-> 0]

NewChannel == [state |-> "joining", joined |-> FALSE]

Live(ch) == { k \in 1..Len(ch) : ch[k].state # "removed" }
ActiveIntervals == { k \in 1..Len(intervals) : intervals[k] = "active" }
PendingTimeouts == { k \in 1..Len(timeouts) : timeouts[k].state = "pending" }

\* supabase.removeChannel(subscription), when a handle is held
RemoveChannel(ch, handle) ==
    IF handle = 0 THEN ch ELSE [ch EXCEPT ![handle].state = "removed"]

\* a timer that has fired or was cleared: nothing of it is left but its handle
SpentTimeout == [state |-> "spent", delay |-> 0]

\* clearTimeout(reconnectTimer): a timer that has fired is left as it is
ClearTimeout(ts, handle) ==
    IF handle # 0 /\ ts[handle].state = "pending"
    THEN [ts EXCEPT ![handle] = SpentTimeout]
    ELSE ts

\* clearInterval(periodicValidation)
ClearInterval(is, handle) ==
    IF handle = 0 THEN is ELSE [is EXCEPT ![handle] = "cleared"]

\* what the postgres_changes handler does with a payload
ChangeVerdictUpdateOnly(payload) ==
    IF payload.eventType = "DELETE" THEN "deleted"
    ELSE IF payload.eventType = "UPDATE" THEN "update"
    ELSE "ignore"

ChangeVerdictStrict(payload) ==
    IF payload.eventType = "DELETE" THEN "deleted"
    ELSE IF payload.eventType = "UPDATE" THEN "deactivated"
    ELSE "ignore"

ChangeVerdict(payload) ==
    IF payload.eventType = "DELETE" THEN "deleted"
    ELSE IF payload.eventType = "UPDATE"
    THEN IF ~payload.new.is_active THEN "deactivated" ELSE "update"
    ELSE "ignore"

\* the reason the handler passes to handleUserLogout
HandlerReason(verdict) ==
    IF verdict = "deleted" THEN "Your account has been deleted"
    ELSE "Your account has been deactivated"

\* whether the periodic validation logs the user out on this result
OnValidationFailOpen(result) ==
    ~result.isValid /\ result.reason # "Unable to verify your session"
                    /\ result.reason # "Session validation failed: service error"

OnValidationErrorsOnly(result) ==
    ~result.isValid /\ result.errorCode \notin { "USER_NOT_FOUND", "USER_DEACTIVATED" }

OnValidation(result) == ~result.isValid

\* sessionValidation.reason || "Session validation failed"
ValidationReason(result) ==
    IF result.reason # "" THEN result.reason ELSE "Session validation failed"

\* reconnectAttempts < MAX_RECONNECT_ATTEMPTS
ShouldReconnectInclusive(attempts) == attempts <= MAX_RECONNECT_ATTEMPTS

ShouldReconnect(attempts) == attempts < MAX_RECONNECT_ATTEMPTS

\* INITIAL_RECONNECT_DELAY * Math.pow(2, reconnectAttempts - 1), in ms
ReconnectDelay(attempts) ==
    IF attempts >= 1 THEN INITIAL_RECONNECT_DELAY * 2 ^ (attempts - 1)
    ELSE INITIAL_RECONNECT_DELAY \div 2 ^ (1 - attempts)

\* UserSessionManager.handleUserLogout(reason): the toast is shown and the
\* redirect timer is started; the timer is pending until navigations catches up
HandleUserLogout(reason) == logouts' = Append(logouts, reason)

\* authService.signOut() is called; the auth listener hears of it later
RequestSignOut ==
    /\ signOuts' = signOuts + 1
    /\ authEvents' = authEvents + 1

\* setupRealTimeSubscription, run on closure e with the channels ch
SetupRealTimeSubscription(e, ch) ==
    IF e.isConnecting
    THEN /\ effect' = e
         /\ channels' = ch
         /\ UNCHANGED intervals
    ELSE /\ channels' = Append(ch, NewChannel)
         /\ intervals' = Append(intervals, "active")
         /\ effect' = [e EXCEPT
                          !.isConnecting = (provider' = "reconnecting"),
                          !.reconnectAttempts = IF provider' = "reconnecting" THEN @ + 1 ELSE @,
                          !.subscription = Len(ch) + 1,
                          !.periodicValidation = Len(intervals) + 1]

\* the effect runs for the signed-in, verified user
EffectRun(p) ==
    /\ validated' = None
    /\ effect.phase = "idle"
    /\ local.user
    /\ provider' = p
    /\ SetupRealTimeSubscription([IdleEffect EXCEPT !.phase = "active"], channels)
    /\ UNCHANGED <<local, timeouts, inbox, inflight, logouts, navigations, signOuts,
                   authEvents, rev>>
    /\ UNCHANGED store /\ UNCHANGED vcall /\ UNCHANGED resetVars /\ UNCHANGED authVars

\* the subscribe callback is called with SUBSCRIBED
Subscribed(k) ==
    /\ validated' = None
    /\ k \in Live(channels)
    /\ channels[k].state \in { "joining", "errored" }
    /\ channels' = [channels EXCEPT ![k].state = "joined", ![k].joined = TRUE]
    /\ effect' = IF provider = "reconnecting"
                 THEN [effect EXCEPT !.reconnectAttempts = 0, !.isConnecting = FALSE]
                 ELSE effect
    /\ UNCHANGED <<provider, local, intervals, timeouts, inbox, inflight, logouts,
                   navigations, signOuts, authEvents, rev>>
    /\ UNCHANGED store /\ UNCHANGED vcall /\ UNCHANGED resetVars /\ UNCHANGED authVars

\* the subscribe callback is called with CHANNEL_ERROR
ChannelError(k) ==
    /\ validated' = None
    /\ k \in Live(channels)
    /\ channels[k].state \in { "joining", "joined" }
    /\ Len(timeouts) < MaxSetups
    /\ channels' = [channels EXCEPT ![k].state = "errored"]
    /\ IF provider = "reconnecting"
       THEN IF ShouldReconnect(effect.reconnectAttempts)
            THEN /\ timeouts' = Append(ClearTimeout(timeouts, effect.reconnectTimer),
                                       [state |-> "pending",
                                        delay |-> ReconnectDelay(effect.reconnectAttempts)])
                 /\ effect' = [effect EXCEPT !.isConnecting = FALSE,
                                             !.reconnectTimer = Len(timeouts) + 1]
            ELSE /\ effect' = [effect EXCEPT !.isConnecting = FALSE]
                 /\ UNCHANGED timeouts
       ELSE UNCHANGED <<effect, timeouts>>
    /\ UNCHANGED <<provider, local, intervals, inbox, inflight, logouts, navigations,
                   signOuts, authEvents, rev>>
    /\ UNCHANGED store /\ UNCHANGED vcall /\ UNCHANGED resetVars /\ UNCHANGED authVars

\* a reconnect timer fires: the old channel is removed and setup runs again
ReconnectFire(k) ==
    /\ validated' = None
    /\ k \in PendingTimeouts
    /\ Len(channels) < MaxSetups
    /\ timeouts' = [timeouts EXCEPT ![k] = SpentTimeout]
    /\ inbox' = <<>>
    /\ provider' = provider
    /\ SetupRealTimeSubscription([effect EXCEPT !.subscription = 0],
                                 RemoveChannel(channels, effect.subscription))
    /\ UNCHANGED <<local, inflight, logouts, navigations, signOuts, authEvents, rev>>
    /\ UNCHANGED store /\ UNCHANGED vcall /\ UNCHANGED resetVars /\ UNCHANGED authVars

\* an administrator or the user changes the row, or the row is deleted; a
\* joined channel is sent the change, a channel that is down is not
RecordChange(kind) ==
    /\ validated' = None
    /\ store[SessionUser] # "deleted"
    /\ rev < MaxChanges
    /\ rev' = rev + 1
    /\ store' = [store EXCEPT ![SessionUser] =
                    CASE kind = "delete" -> "deleted"
                      [] kind = "deactivate" -> "inactive"
                      [] OTHER -> "active"]
    /\ inbox' = IF \E k \in Live(channels) : channels[k].state = "joined"
                THEN Append(inbox,
                        IF kind = "delete" THEN [eventType |-> "DELETE", new |-> None]
                        ELSE [eventType |-> "UPDATE",
                              new |-> ChangedRow(kind # "deactivate", rev + 1)])
                ELSE inbox
    /\ UNCHANGED <<provider, local, effect, channels, intervals, timeouts, inflight,
                   logouts, navigations, signOuts, authEvents>>
    /\ UNCHANGED vcall /\ UNCHANGED resetVars /\ UNCHANGED authVars

\* the postgres_changes handler is called with the next notification
Notify ==
    /\ validated' = None
    /\ inbox # <<>>
    /\ Live(channels) # {}
    /\ inbox' = Tail(inbox)
    /\ LET payload == Head(inbox)
           verdict == ChangeVerdict(payload)
       IN  IF verdict \in { "deleted", "deactivated" }
           THEN /\ Len(logouts) < MaxLogouts
                /\ local' = ClearedState
                /\ HandleUserLogout(HandlerReason(verdict))
                /\ RequestSignOut
           ELSE /\ local' = IF verdict = "update"
                            THEN [local EXCEPT !.profile = payload.new]   \* handleUserUpdate
                            ELSE local
                /\ UNCHANGED <<logouts, signOuts, authEvents>>
    /\ UNCHANGED <<provider, effect, channels, intervals, timeouts, inflight, navigations, rev>>
    /\ UNCHANGED store /\ UNCHANGED vcall /\ UNCHANGED resetVars /\ UNCHANGED authVars

\* an interval timer fires and the validation awaits getUserById
IntervalFire(k) ==
    /\ validated' = None
    /\ k \in ActiveIntervals
    /\ inflight < MaxValidations
    /\ inflight' = inflight + 1
    /\ UNCHANGED <<provider, local, effect, channels, intervals, timeouts, inbox, logouts,
                   navigations, signOuts, authEvents, rev>>
    /\ UNCHANGED store /\ UNCHANGED vcall /\ UNCHANGED resetVars /\ UNCHANGED authVars

\* getUserById settles; an invalid result logs the user out
ValidationDone ==
    /\ inflight > 0
    /\ inflight' = inflight - 1
    /\ \E read \in { Threw, ServiceOk(RowOf(SessionUser)), ServiceFailed("NETWORK_ERROR") } :
         LET result == ValidateUserSession("current", read) IN
         /\ validated' = [read |-> read, result |-> result]
         /\ IF OnValidation(result)
            THEN /\ Len(logouts) < MaxLogouts
                 /\ HandleUserLogout(ValidationReason(result))
                 /\ RequestSignOut
            ELSE UNCHANGED <<logouts, signOuts, authEvents>>
    /\ UNCHANGED <<provider, local, effect, channels, intervals, timeouts, inbox,
                   navigations, rev>>
    /\ UNCHANGED store /\ UNCHANGED vcall /\ UNCHANGED resetVars /\ UNCHANGED authVars

\* the user signs out
SignOut ==
    /\ validated' = None
    /\ effect.phase = "active"
    /\ local.user
    /\ signOuts = 0
    /\ RequestSignOut
    /\ UNCHANGED <<provider, local, effect, channels, intervals, timeouts, inbox, inflight,
                   logouts, navigations, rev>>
    /\ UNCHANGED store /\ UNCHANGED vcall /\ UNCHANGED resetVars /\ UNCHANGED authVars

\* onAuthStateChange is called with no session
AuthSignedOut ==
    /\ validated' = None
    /\ authEvents > 0
    /\ authEvents' = authEvents - 1
    /\ local' = ClearedState
    /\ UNCHANGED <<provider, effect, channels, intervals, timeouts, inbox, inflight,
                   logouts, navigations, signOuts, rev>>
    /\ UNCHANGED store /\ UNCHANGED vcall /\ UNCHANGED resetVars /\ UNCHANGED authVars

\* the cleanup of the effect runs: the user changed or the provider unmounts
Cleanup ==
    /\ validated' = None
    /\ effect.phase = "active"
    /\ timeouts' = ClearTimeout(timeouts, effect.reconnectTimer)
    /\ intervals' = ClearInterval(intervals, effect.periodicValidation)
    /\ channels' = RemoveChannel(channels, effect.subscription)
    /\ inbox' = <<>>
    /\ effect' = [effect EXCEPT !.phase = "terminated", !.reconnectTimer = 0,
                                !.periodicValidation = 0, !.subscription = 0]
    /\ UNCHANGED <<provider, local, inflight, logouts, navigations, signOuts, authEvents, rev>>
    /\ UNCHANGED store /\ UNCHANGED vcall /\ UNCHANGED resetVars /\ UNCHANGED authVars

\* a redirect timer of handleUserLogout fires: window.location.href is set.
\* (The page goes on running until the new document is there.)
RedirectFire ==
    /\ validated' = None
    /\ navigations < Len(logouts)
    /\ navigations' = navigations + 1
    /\ UNCHANGED <<provider, local, effect, channels, intervals, timeouts, inbox, inflight,
                   logouts, signOuts, authEvents, rev>>
    /\ UNCHANGED store /\ UNCHANGED vcall /\ UNCHANGED resetVars /\ UNCHANGED authVars

----------------------------------------------------------------------------
(* The auth-state effect of AuthProvider.  src/context/AuthContext.tsx      *)
(* ("context") runs it again whenever fetchUserData changes;                *)
(* src/unnamed/part_010 ("reconnecting") also keeps the state initialized  *)
(* and the flag window.__SUPABASE_AUTH_INITIALIZED.                        *)

MaxSettings == 1      \* "settings-update" events handled
MaxAuthChanges == 1   \* auth state changes the identity provider reports

\* the session an auth event or getSession carries: none, or the session of
\* a user whose email is or is not confirmed
Sessions == { "none", "verified", "unverified" }

\* useState(true) for loading, useState(false) for initialized, null for the rest
UnmountedAuth ==
    [provider |-> "none", loading |-> TRUE, initialized |-> FALSE, checked |-> FALSE,
     session |-> "none", applied |-> 0, settings |-> 0, updates |-> 0, flag |-> FALSE,
     current |-> 0, depSettings |-> 0, depInitialized |-> FALSE]

\* changes counts the auth state changes reported so far; reportedAt is the
\* number of the latest one reported after the initial check had completed
QuietIdp == [session |-> "none", changes |-> 0, reportedAt |-> 0]

\* part_010 has the state initialized and the window flag, AuthContext.tsx has not
HasInitialized(p) == p = "reconnecting"

\* what a run of the effect sets up: isMounted, getInitialSession() called,
\* loadingTimeout started, the auth listener subscribed
NewRun(a) ==
    [isMounted |-> TRUE, initialized |-> a.initialized, settings |-> a.settings,
     pc |-> IF HasInitialized(a.provider) /\ a.initialized THEN "returned" ELSE "getSession",
     timeout |-> "pending", listener |-> TRUE, cb |-> 0]

\* the body of the effect, run with the state a after the runs rs
AuthEffectBody(a, rs) ==
    LET deps == [a EXCEPT !.depSettings = a.settings, !.depInitialized = a.initialized] IN
    IF HasInitialized(a.provider) /\ a.flag
    THEN /\ runs' = rs                                   \* return: nothing is set up
         /\ auth' = [deps EXCEPT !.current = 0]
    ELSE /\ runs' = Append(rs, NewRun(a))
         /\ auth' = [deps EXCEPT !.flag = HasInitialized(a.provider),
                                 !.current = Len(rs) + 1,
                                 !.loading = IF NewRun(a).pc = "getSession" THEN TRUE ELSE @]

\* the cleanup a run returned: isMounted.current = false, unsubscribe, clearTimeout
CleanupRun(rs, k) ==
    IF k = 0 THEN rs
    ELSE [rs EXCEPT ![k].isMounted = FALSE, ![k].listener = FALSE,
                    ![k].timeout = IF @ = "pending" THEN "cleared" ELSE @]

\* setLoading(false) and, where the state exists, setInitialized(true)
InitialCheckDone(a) ==
    [a EXCEPT !.loading = FALSE, !.initialized = HasInitialized(a.provider),
              !.checked = TRUE]

\* what fetchUserData(user, isMounted) has done when it returns
AfterFetch(a, r, outcome) ==
    CASE outcome = "logout" -> [a EXCEPT !.loading = FALSE, !.session = "none"]
      [] outcome = "failed" -> IF r.isMounted THEN [a EXCEPT !.loading = FALSE] ELSE a
      [] OTHER -> IF r.settings = 0 /\ r.isMounted
                  THEN [a EXCEPT !.settings = @ + 1]     \* setSettings(settingsData)
                  ELSE a

\* the provider mounts and the effect runs for the first time
Mount(p, s) ==
    /\ auth.provider = "none"
    /\ idp' = [idp EXCEPT !.session = s]
    /\ AuthEffectBody([auth EXCEPT !.provider = p], runs)
    /\ UNCHANGED resetVars /\ UNCHANGED validateVars /\ UNCHANGED watchVars

\* supabase.auth.getSession() settles in getInitialSession of run k
GetSessionDone(k) ==
    /\ runs[k].pc = "getSession"
    /\ IF ~runs[k].isMounted
       THEN /\ runs' = [runs EXCEPT ![k].pc = "done"]
            /\ UNCHANGED auth
       ELSE \E outcome \in { "error", "session" } :
              IF outcome = "error"
              THEN /\ runs' = [runs EXCEPT ![k].pc = "done"]
                   /\ auth' = InitialCheckDone(
                                 [auth EXCEPT !.session = IF HasInitialized(auth.provider)
                                                          THEN "none" ELSE @])
              ELSE IF idp.session = "verified"
                   THEN /\ runs' = [runs EXCEPT ![k].pc = "fetch"]
                        /\ auth' = [auth EXCEPT !.session = "verified",
                                                !.applied = idp.changes]
                   ELSE /\ runs' = [runs EXCEPT ![k].pc = "done"]
                        /\ auth' = InitialCheckDone([auth EXCEPT !.session = idp.session,
                                                                 !.applied = idp.changes])
    /\ UNCHANGED idp
    /\ UNCHANGED resetVars /\ UNCHANGED validateVars /\ UNCHANGED watchVars

\* fetchUserData returns to getInitialSession of run k
FetchDone(k) ==
    /\ runs[k].pc = "fetch"
    /\ runs' = [runs EXCEPT ![k].pc = "done"]
    /\ \E outcome \in { "ok", "logout", "failed" } :
          LET a == AfterFetch(auth, runs[k], outcome) IN
          auth' = IF runs[k].isMounted THEN InitialCheckDone(a) ELSE a
    /\ UNCHANGED idp
    /\ UNCHANGED resetVars /\ UNCHANGED validateVars /\ UNCHANGED watchVars

\* a "settings-update" event: handleSettingsUpdate calls setSettings
SettingsUpdate ==
    /\ auth.provider # "none"
    /\ auth.updates < MaxSettings
    /\ auth' = [auth EXCEPT !.settings = @ + 1, !.updates = @ + 1]
    /\ UNCHANGED <<runs, idp>>
    /\ UNCHANGED resetVars /\ UNCHANGED validateVars /\ UNCHANGED watchVars

\* a dependency of the effect has changed: the cleanup of the last run is
\* called and the effect runs again
AuthEffectRerun ==
    /\ auth.provider # "none"
    /\ \/ auth.settings # auth.depSettings                 \* fetchUserData is a new function
       \/ HasInitialized(auth.provider) /\ auth.initialized # auth.depInitialized
    /\ AuthEffectBody(auth, CleanupRun(runs, auth.current))
    /\ UNCHANGED idp
    /\ UNCHANGED resetVars /\ UNCHANGED validateVars /\ UNCHANGED watchVars

\* loadingTimeout of run k fires after 10 seconds
LoadingTimeout(k) ==
    /\ runs[k].timeout = "pending"
    /\ runs' = [runs EXCEPT ![k].timeout = "fired"]
    /\ auth' = IF runs[k].isMounted THEN [auth EXCEPT !.loading = FALSE] ELSE auth
    /\ UNCHANGED idp
    /\ UNCHANGED resetVars /\ UNCHANGED validateVars /\ UNCHANGED watchVars

\* the listeners subscribed at this moment
Listeners == { k \in 1..Len(runs) : runs[k].listener }

\* whether the callback of run r acts on an event
ListenerActs(p, r) == r.isMounted /\ (HasInitialized(p) => r.initialized)

\* the callback of the listener of run k, called with (event, session), up
\* to its first await
ListenerCalled(k, event, s) ==
    IF ~ListenerActs(auth.provider, runs[k])
    THEN UNCHANGED <<auth, runs>>
    ELSE IF s = "verified"
         THEN /\ runs' = [runs EXCEPT ![k].cb = @ + 1]      \* await fetchUserData
              /\ auth' = [auth EXCEPT
                            !.session = s,
                            !.applied = idp.changes + 1,
                            !.loading = IF ~HasInitialized(auth.provider) /\ event = "SIGNED_IN"
                                        THEN TRUE ELSE @]
         ELSE /\ auth' = [auth EXCEPT !.session = s, !.applied = idp.changes + 1,
                                      !.loading = FALSE]
              /\ UNCHANGED runs

\* the identity provider reports a change of the auth state: the session
\* changes and every subscribed listener is called
AuthChange(event, s) ==
    /\ auth.provider # "none"
    /\ idp.changes < MaxAuthChanges
    /\ CASE event = "SIGNED_IN" -> idp.session = "none" /\ s # "none"
         [] event = "SIGNED_OUT" -> idp.session # "none" /\ s = "none"
         [] OTHER -> idp.session # "none" /\ s = idp.session      \* TOKEN_REFRESHED
    /\ idp' = [session |-> s,
               changes |-> idp.changes + 1,
               reportedAt |-> IF auth.checked THEN idp.changes + 1 ELSE idp.reportedAt]
    /\ IF Listeners = {}
       THEN UNCHANGED <<auth, runs>>
       ELSE ListenerCalled(CHOOSE k \in Listeners : TRUE, event, s)
    /\ UNCHANGED resetVars /\ UNCHANGED validateVars /\ UNCHANGED watchVars

\* fetchUserData returns to the listener callback of run k
ListenerFetchDone(k) ==
    /\ runs[k].cb > 0
    /\ runs' = [runs EXCEPT ![k].cb = @ - 1]
    /\ \E outcome \in { "ok", "logout", "failed" } :
          LET a == AfterFetch(auth, runs[k], outcome) IN
          auth' = IF runs[k].isMounted THEN [a EXCEPT !.loading = FALSE] ELSE a
    /\ UNCHANGED idp
    /\ UNCHANGED resetVars /\ UNCHANGED validateVars /\ UNCHANGED watchVars

----------------------------------------------------------------------------
(* Specification of the reset workflow *)

Init ==
    /\ impl \in { "service", "action" }
    /\ clock = 0
    /\ ticks = 0
    /\ tokens = <<>>
    /\ password = [u \in UserIds |-> "p0"]
    /\ request = IdleRequest
    /\ redeems = [c \in Calls |-> IdleRedeem]
    /\ returned = None
    /\ redeemed = {}
    /\ store = [u \in UserIds |-> "active"]
    /\ vcall = IdleValidate
    /\ provider = "none"
    /\ local = SignedIn
    /\ effect = IdleEffect
    /\ channels = <<>>
    /\ intervals = <<>>
    /\ timeouts = <<>>
    /\ inbox = <<>>
    /\ inflight = 0
    /\ validated = None
    /\ logouts = <<>>
    /\ navigations = 0
    /\ signOuts = 0
    /\ authEvents = 0
    /\ rev = 0
    /\ auth = UnmountedAuth
    /\ runs = <<>>
    /\ idp = QuietIdp

\* requestPasswordReset run to its end with every collaborator answering: seen
\* from resetPassword, the one effect of a request is the row it inserts
IssueUpTo(email, limit) ==
    /\ request.pc \in { "idle", "done" }
    /\ Len(tokens) < limit
    /\ \E u \in UserMatches(impl, email) :
          tokens' = Append(tokens,
                       NewTokenRow(Len(tokens) + 1,
                          [IdleRequest EXCEPT !.email = email, !.type = "user",
                                              !.userId = u.id,
                                              !.token = RandomHex[Len(tokens) + 1],
                                              !.issuedAt = clock]))
    /\ NoReturn
    /\ UNCHANGED <<impl, clock, ticks, password, request, redeems>>
    /\ UNCHANGED validateVars /\ UNCHANGED watchVars /\ UNCHANGED authVars

Issue(email) == IssueUpTo(email, MaxTokens)

\* the request workflow, step by step
NextRequest ==
    \/ \E e \in RequestEmails, t \in AccountTypes : RequestLookup(e, t)
    \/ RequestInsert
    \/ RequestEmail
    \/ Tick

SpecRequest == Init /\ [][NextRequest]_vars

\* redemption by calls made one after another, while time passes
NextSequential ==
    \/ \E e \in RequestEmails : Issue(e)
    \/ \E t \in AccountTypes :
          \E tok \in { r.token : r \in TokenRows } \cup ForgedTokens : RedeemRead(1, tok, t)
    \/ \E pw \in NewPasswords : RedeemUpdatePassword(1, pw)
    \/ RedeemMarkUsed(1)
    \/ Tick

SpecSequential == Init /\ [][NextSequential]_vars

\* requests repeated for the same accounts, and the tokens redeemed one
\* after another
NextRepeat ==
    \/ \E e \in RequestEmails : IssueUpTo(e, MaxRequests)
    \/ \E tok \in { r.token : r \in TokenRows } : RedeemRead(1, tok, "user")
    \/ \E pw \in NewPasswords : RedeemUpdatePassword(1, pw)
    \/ RedeemMarkUsed(1)

SpecRepeat == Init /\ [][NextRepeat]_vars

\* redemption by calls that overlap at their suspension points
Next ==
    \/ \E e \in RequestEmails : Issue(e)
    \/ \E c \in Calls, t \in AccountTypes :
          \E tok \in { r.token : r \in TokenRows } \cup ForgedTokens : RedeemRead(c, tok, t)
    \/ \E c \in Calls, pw \in NewPasswords : RedeemUpdatePassword(c, pw)
    \/ \E c \in Calls : RedeemMarkUsed(c)

Spec == Init /\ [][Next]_vars

\* session validation against a user table that administrators change
NextValidate ==
    \/ \E v \in { "current", "legacy" }, shape \in { "response", "direct" }, id \in UserIds :
          ValidateStart(v, shape, id)
    \/ ValidateRead
    \/ \E id \in UserIds, active \in BOOLEAN : SetActive(id, active)
    \/ \E id \in UserIds : DeleteUser(id)

SpecValidate == Init /\ [][NextValidate]_vars

\* one live session under the revocation watcher; the reset workflow plays no
\* part in it
InitWatcher == Init /\ impl = "service"

\* the session: notifications, periodic validation, sign-out and teardown,
\* with a channel that joins and stays up
NextSession ==
    \/ \E p \in { "context", "reconnecting" } : EffectRun(p)
    \/ \E k \in 1..MaxSetups : Subscribed(k)
    \/ \E kind \in { "delete", "deactivate", "update" } : RecordChange(kind)
    \/ Notify
    \/ \E k \in 1..MaxSetups : IntervalFire(k)
    \/ ValidationDone
    \/ SignOut
    \/ AuthSignedOut
    \/ Cleanup
    \/ RedirectFire

SpecSession == InitWatcher /\ [][NextSession]_vars

\* the subscription: statuses, reconnect timers and teardown
NextReconnect ==
    \/ \E p \in { "context", "reconnecting" } : EffectRun(p)
    \/ \E k \in 1..MaxSetups : Subscribed(k)
    \/ \E k \in 1..MaxSetups : ChannelError(k)
    \/ \E k \in 1..MaxSetups : ReconnectFire(k)
    \/ Cleanup

SpecReconnect == InitWatcher /\ [][NextReconnect]_vars

\* a subscription that never comes up, with the periodic validation running
NextDown ==
    \/ \E p \in { "context", "reconnecting" } : EffectRun(p)
    \/ \E k \in 1..MaxSetups : ChannelError(k)
    \/ \E k \in 1..MaxSetups : ReconnectFire(k)
    \/ \E kind \in { "delete", "deactivate", "update" } : RecordChange(kind)
    \/ \E k \in 1..MaxSetups : IntervalFire(k)
    \/ ValidationDone
    \/ Cleanup

SpecDown == InitWatcher /\ [][NextDown]_vars

\* the auth-state effect from the mount of the provider on
NextAuth ==
    \/ \E p \in { "context", "reconnecting" }, s \in Sessions : Mount(p, s)
    \/ \E k \in 1..Len(runs) : GetSessionDone(k)
    \/ \E k \in 1..Len(runs) : FetchDone(k)
    \/ SettingsUpdate
    \/ AuthEffectRerun
    \/ \E k \in 1..Len(runs) : LoadingTimeout(k)
    \/ \E event \in { "SIGNED_IN", "SIGNED_OUT", "TOKEN_REFRESHED" }, s \in Sessions :
          AuthChange(event, s)
    \/ \E k \in 1..Len(runs) : ListenerFetchDone(k)

\* promises settle, timers fire and React runs its effects; settings updates
\* and auth changes come as they please
AuthFairness ==
    /\ WF_vars(\E k \in 1..Len(runs) : GetSessionDone(k))
    /\ WF_vars(\E k \in 1..Len(runs) : FetchDone(k))
    /\ WF_vars(AuthEffectRerun)
    /\ WF_vars(\E k \in 1..Len(runs) : LoadingTimeout(k))
    /\ WF_vars(\E k \in 1..Len(runs) : ListenerFetchDone(k))

SpecAuth == InitWatcher /\ [][NextAuth]_vars /\ AuthFairness

----------------------------------------------------------------------------
(* Properties of resetPassword *)

\* C1: in a sequence of resetPassword calls made one after another, once a
\* call has returned success every later call with the same token fails with
\* TOKEN_USED and does not reach the identity provider.  (A later call whose
\* read itself fails is left aside.)
C1_SingleUse ==
    (returned # None /\ returned.afterSuccess /\ returned.rec # None) =>
        /\ returned.response = TokenUsed(impl)
        /\ returned.idp = "none"

\* C2: of two overlapping resetPassword calls that read the same unused,
\* unexpired token row, at most one gets as far as having updated the password.
C2_AtMostOneRedeems ==
    \A c, d \in Calls :
        (c # d /\ redeems[c].pc = "mark" /\ redeems[d].pc = "mark") =>
            redeems[c].rec.id # redeems[d].rec.id

\* C3: used_at of a row is written only by a call whose identity-provider
\* password update has succeeded; a call whose password update fails returns
\* failure without having issued the mark-used write, and leaves the table
\* and the passwords as they were, so the row it read is as redeemable after
\* the call as it was before.
C3_MarkOnlyAfterPasswordUpdate ==
    [][ /\ \A k \in 1..Len(tokens) :
              tokens'[k].used_at # tokens[k].used_at =>
                  \E c \in Calls : /\ redeems[c].pc = "mark"
                                   /\ redeems[c].rec.id = k
                                   /\ redeems[c].idp = "ok"
        /\ (returned' # None /\ returned'.idp \in { "error", "threw" }) =>
              /\ ~returned'.response.success
              /\ returned'.mark = "none"
              /\ tokens' = tokens
              /\ password' = password
              /\ RedeemVerdict(impl, tokens'[returned'.rec.id], "user", clock)
                   = RedeemVerdict(impl, tokens[returned'.rec.id], "user", clock)
      ]_vars

\* a call has just returned the identity provider's refusal, and the row it
\* read is still unused
C3_Witness ==
    /\ returned # None
    /\ returned.idp \in { "error", "threw" }
    /\ ~returned.response.success
    /\ tokens[returned.rec.id].used_at = None

\* C4: a call that reads an existing, unused row is refused with
\* TOKEN_EXPIRED exactly when expires_at < now, now being the clock at the
\* time of the check; the refusal changes no password and no row; a call
\* goes on to the identity provider only with a row that is not expired, the
\* instant now = expires_at included.
C4_ExpiredIffPast ==
    [][ /\ (/\ returned' # None
            /\ returned'.idp = "none"
            /\ returned'.rec # None
            /\ returned'.rec.used_at = None) =>
              /\ returned'.checkedAt = clock
              /\ (returned'.response = TokenExpired(impl))
                    <=> (ParseDate(returned'.rec.expires_at) < clock)
              /\ returned'.response = TokenExpired(impl) =>
                    (password' = password /\ tokens' = tokens)
        /\ \A c \in Calls :
              (redeems[c].pc = "idle" /\ redeems'[c].pc = "idp") =>
                  /\ redeems'[c].checkedAt = clock
                  /\ ParseDate(redeems'[c].rec.expires_at) >= clock
      ]_vars

\* a call checked at the very instant of expiry has returned success
C4_Witness ==
    /\ returned # None
    /\ returned.response = Success
    /\ ParseDate(returned.rec.expires_at) = returned.checkedAt

\* C5: a call presenting a string that equals no stored token is refused
\* with INVALID_TOKEN and never reaches the identity provider.
C5_UnknownTokenRefused ==
    /\ (returned # None /\ \A r \in TokenRows : r.token # returned.token) =>
          /\ returned.response = InvalidToken(impl)
          /\ returned.idp = "none"
    /\ \A c \in Calls :
          redeems[c].pc # "idle" => \E r \in TokenRows : r.token = redeems[c].token

----------------------------------------------------------------------------
(* Properties of requestPasswordReset *)

\* C6: with every collaborator answering, a request of type "user" returns
\* the same success response whether or not the email belongs to a user.
C6_SameResponse ==
    (request.pc = "done" /\ request.type = "user" /\ request.fail = "none") =>
        request.response = Success

\* C7: a request for the email of an existing user creates one token row
\* bound to that user's id, expiring exactly 3600 seconds after issuance,
\* with used_at null.
C7_TokenRecord ==
    \A u \in Users :
        (/\ request.pc = "done"
         /\ request.type = "user"
         /\ request.fail = "none"
         /\ request.email = u.email) =>
            /\ request.created # None
            /\ request.created.user_id = u.id
            /\ ParseDate(request.created.expires_at) = request.issuedAt + 3600 * 1000
            /\ request.created.used_at = None
            /\ tokens[request.created.id] = request.created

\* C8: when the lookup, the insert or the email dispatch fails, the caller
\* gets a failure carrying the generic message and nothing of the error.
C8_GenericFailure ==
    (request.pc = "done" /\ request.fail # "none") =>
        /\ ~request.response.success
        /\ request.response.message = GenericMessage
        /\ request.response.details = "none"

----------------------------------------------------------------------------
(* Properties of validateUserSession *)

\* the read came back without failing
ReadSucceeded(read) ==
    \/ read.kind = "direct"
    \/ read.kind = "response" /\ read.success

\* the user object a successful read carries
UserRead(read) == IF read.kind = "response" THEN read.data ELSE read.user

\* C9: when the read yields no record the result is invalid with the "no
\* longer exists" reason; when the record has is_active = false it is invalid
\* with the "deactivated" reason; otherwise it is valid and carries the
\* record.  A missing record is reported as missing, never as deactivated.
C9_ValidationRules ==
    (vcall.pc = "done" /\ ReadSucceeded(vcall.read)) =>
        LET u == UserRead(vcall.read) IN
        /\ u = None =>
              /\ ~vcall.result.isValid
              /\ vcall.result.reason \in { "Your account no longer exists",
                                           "User account no longer exists" }
        /\ (u # None /\ ~u.is_active) =>
              /\ ~vcall.result.isValid
              /\ vcall.result.reason = "Your account has been deactivated"
        /\ (u # None /\ u.is_active) =>
              /\ vcall.result.isValid
              /\ vcall.result.user = u

\* a validation of a deleted user has ended with the "no longer exists" reason
C9_Witness ==
    /\ vcall.pc = "done"
    /\ ReadSucceeded(vcall.read)
    /\ UserRead(vcall.read) = None
    /\ store[vcall.userId] = "deleted"
    /\ ~vcall.result.isValid

\* C10 as stated: a failed read, thrown or reported with success = false,
\* gives invalid with the reason "Unable to verify your session".
C10_UnableToVerify ==
    (vcall.pc = "done" /\ ~ReadSucceeded(vcall.read)) =>
        /\ ~vcall.result.isValid
        /\ vcall.result.reason = "Unable to verify your session"

\* C10: a failed read never gives a valid result: a read that throws gives
\* the reason "Unable to verify your session", a service response with
\* success = false the reason "Session validation failed: service error".
C10_FailClosed ==
    (vcall.pc = "done" /\ ~ReadSucceeded(vcall.read)) =>
        /\ ~vcall.result.isValid
        /\ vcall.result.reason =
              IF vcall.read.kind = "threw" THEN "Unable to verify your session"
              ELSE "Session validation failed: service error"

\* a validation whose read came back with success = false has ended invalid
C10_Witness ==
    /\ vcall.pc = "done"
    /\ vcall.read.kind = "response"
    /\ ~vcall.read.success
    /\ ~vcall.result.isValid

----------------------------------------------------------------------------
(* Claims about the revocation watcher *)

\* the step is a call of the postgres_changes handler with the head of inbox
NotifyStep == inbox # <<>> /\ inbox' = Tail(inbox) /\ effect' = effect

LastLogout == logouts[Len(logouts)]

\* C11: a DELETE notification, or an UPDATE notification whose new row has
\* is_active false, clears session, user and profile in the same step and
\* invokes the forced logout with the reason "Your account has been deleted",
\* respectively "Your account has been deactivated".
C11_NotificationLogsOut ==
    [][(NotifyStep /\ (\/ Head(inbox).eventType = "DELETE"
                       \/ (Head(inbox).eventType = "UPDATE" /\ ~Head(inbox).new.is_active)))
        => /\ local' = ClearedState
           /\ logouts' = Append(logouts,
                            IF Head(inbox).eventType = "DELETE"
                            THEN "Your account has been deleted"
                            ELSE "Your account has been deactivated")]_vars

\* a deactivation was notified: the state is cleared and the logout invoked,
\* before any redirect timer has fired
C11_Witness ==
    /\ store[SessionUser] = "inactive"
    /\ logouts = << "Your account has been deactivated" >>
    /\ local = ClearedState
    /\ navigations = 0

\* C12: an UPDATE notification whose new row has is_active true replaces the
\* local profile with the new row, leaves session and user as they are,
\* invokes no forced logout, requests no sign-out and cancels or creates no
\* timer and no subscription.
C12_ProfileRefresh ==
    [][(NotifyStep /\ Head(inbox).eventType = "UPDATE" /\ Head(inbox).new.is_active)
        => /\ local' = [local EXCEPT !.profile = Head(inbox).new]
           /\ UNCHANGED <<logouts, signOuts, authEvents, navigations>>
           /\ UNCHANGED <<effect, channels, intervals, timeouts>>]_vars

\* the profile of a signed-in user was replaced by a notified row
C12_Witness ==
    /\ local.session /\ local.user
    /\ local.profile = ChangedRow(TRUE, 1)
    /\ logouts = <<>>
    /\ signOuts = 0
    /\ effect.phase = "active"

\* C13: a periodic validation whose result is invalid, whatever the reason,
\* a failed read included, invokes the forced logout with the validator's
\* reason and requests a sign-out; a valid result does neither.
C13_PeriodicValidation ==
    [][validated' # None
        => IF validated'.result.isValid
           THEN UNCHANGED <<logouts, signOuts, authEvents>>
           ELSE /\ validated'.result.reason # ""
                /\ logouts' = Append(logouts, validated'.result.reason)
                /\ signOuts' = signOuts + 1]_vars

\* a periodic validation whose read failed has logged the user out
C13_Witness ==
    /\ validated # None
    /\ ~ReadSucceeded(validated.read)
    /\ logouts # <<>>
    /\ LastLogout = "Session validation failed: service error"
    /\ signOuts > 0

\* no channel of the effect is joined: changes of the row are not notified
SubscriptionDown == \A k \in Live(channels) : channels[k].state # "joined"

\* the reconnect attempts are used up and no reconnect is pending
AttemptsExhausted ==
    /\ effect.phase = "active"
    /\ effect.reconnectAttempts = MAX_RECONNECT_ATTEMPTS
    /\ channels[effect.subscription].state = "errored"
    /\ PendingTimeouts = {}

\* C14: while the subscription is down, also after the reconnect attempts
\* are used up, the periodic timer held by the effect stays active, and every
\* periodic validation that settles after the row was deleted or deactivated
\* ends in the forced logout with the validator's reason.
C14_DetectedByValidation ==
    [][/\ (effect'.phase = "active"
             => intervals'[effect'.periodicValidation] = "active")
       /\ ((validated' # None /\ SubscriptionDown /\ store[SessionUser] # "active")
             => /\ ~validated'.result.isValid
                /\ logouts' = Append(logouts, validated'.result.reason)
                /\ signOuts' = signOuts + 1)]_vars

\* with the attempts used up and nothing pending, a deactivation that was
\* never notified was found by a periodic validation
C14_Witness ==
    /\ AttemptsExhausted
    /\ SubscriptionDown
    /\ inbox = <<>>
    /\ store[SessionUser] = "inactive"
    /\ validated # None
    /\ validated.result.errorCode = "USER_DEACTIVATED"
    /\ logouts = << "Your account has been deactivated" >>
    /\ effect.periodicValidation \in ActiveIntervals

\* C15 as stated: once a delete notification has been handled the forced
\* logout has been invoked exactly once, whatever periodic validation fires
\* or settles around it, and no second navigation follows.
C15_LogoutOnce ==
    (\E i \in 1..Len(logouts) : logouts[i] = "Your account has been deleted")
        => (Len(logouts) = 1 /\ navigations <= 1)

\* C16 as stated: once the effect is torn down no periodic timer, no
\* reconnect timer and no subscription is left active.
C16_NothingLeftActive ==
    effect.phase = "terminated"
        => (ActiveIntervals = {} /\ PendingTimeouts = {} /\ Live(channels) = {})

\* the channels k .. k + n - 1 were subscribed and none of them ever joined
NeverJoinedRun(k, n) == \A j \in k..(k + n - 1) : ~channels[j].joined

\* C17: among any MAX_RECONNECT_ATTEMPTS + 1 subscription attempts in a row
\* one has joined, and when the latest MAX_RECONNECT_ATTEMPTS attempts have
\* all failed to join no reconnect timer is pending.
C17_AttemptCap ==
    /\ \A k \in 1..(Len(channels) - MAX_RECONNECT_ATTEMPTS) :
          ~NeverJoinedRun(k, MAX_RECONNECT_ATTEMPTS + 1)
    /\ (/\ Len(channels) >= MAX_RECONNECT_ATTEMPTS
        /\ NeverJoinedRun(Len(channels) - MAX_RECONNECT_ATTEMPTS + 1, MAX_RECONNECT_ATTEMPTS))
          => PendingTimeouts = {}

\* the fifth attempt in a row has failed and nothing is scheduled
C17_Witness ==
    /\ AttemptsExhausted
    /\ Len(channels) >= MAX_RECONNECT_ATTEMPTS
    /\ NeverJoinedRun(Len(channels) - MAX_RECONNECT_ATTEMPTS + 1, MAX_RECONNECT_ATTEMPTS)
    /\ \A k \in 1..Len(timeouts) : timeouts[k].state = "spent"
    /\ Len(timeouts) >= MAX_RECONNECT_ATTEMPTS - 1

\* C18 as stated: once the effect is torn down no later event creates a
\* subscription, an interval timer, a reconnect timer or a redirect timer.
C18_TerminatedAbsorbing ==
    [][effect.phase = "terminated"
        => /\ effect'.phase = "terminated"
           /\ Len(channels') = Len(channels)
           /\ Len(intervals') = Len(intervals)
           /\ Len(timeouts') = Len(timeouts)
           /\ Len(logouts') = Len(logouts)]_vars

\* C20 as stated: session, user and profile are cleared only when the delay
\* of the forced logout has passed; while no redirect timer has fired and no
\* one but the forced logout asked for a sign-out, the state is as it was.
C20_ClearAfterDelay ==
    (logouts # <<>> /\ navigations = 0 /\ signOuts = Len(logouts))
        => (local.session /\ local.user)

----------------------------------------------------------------------------
(* Claims about the account type at redemption *)

\* C19 as stated: a redemption with an account type other than "user" fails
\* with the unsupported-type failure, whatever the token.
C19_UnsupportedTypeAlways ==
    (returned # None /\ returned.type # "user")
        => returned.response = UnsupportedType(impl)

\* C19: a redemption with an account type other than "user" never succeeds,
\* never calls the identity provider and never marks a row; it fails with the
\* unsupported-type failure exactly when the token names a row that is unused
\* and not expired, and with the failure of the token otherwise.
C19_NonUserTypeRefused ==
    (returned # None /\ returned.type # "user")
        => /\ ~returned.response.success
           /\ returned.idp = "none"
           /\ returned.mark = "none"
           /\ returned.response =
                IF returned.rec = None THEN InvalidToken(impl)
                ELSE IF returned.rec.used_at # None THEN TokenUsed(impl)
                ELSE IF ParseDate(returned.rec.expires_at) < returned.checkedAt
                     THEN TokenExpired(impl)
                ELSE UnsupportedType(impl)

\* a redemption of type "developer" with a live token was refused for its type
C19_Witness ==
    /\ returned # None
    /\ returned.type = "developer"
    /\ returned.rec # None
    /\ returned.rec.used_at = None
    /\ returned.response = UnsupportedType(impl)

----------------------------------------------------------------------------
(* Claims about repeated requests and the lookups *)

\* C21: every answered request appends one token row, unused and with a
\* token no earlier row has, and leaves the earlier rows as they are; no
\* step removes a row; a row changes only in used_at and only by the call
\* that read it; and every row that is unused and not expired is found by
\* its token and passes every check of a redemption, whichever other rows
\* of the same user have been redeemed.
C21_TokensIndependent ==
    [][/\ Len(tokens') >= Len(tokens)
       /\ SubSeq(tokens', 1, Len(tokens)) # tokens
            => /\ Len(tokens') = Len(tokens)
               /\ redeems[1].pc = "mark"
               /\ \A k \in 1..Len(tokens) :
                     tokens'[k] # tokens[k]
                        => /\ k = redeems[1].rec.id
                           /\ tokens'[k] = [tokens[k] EXCEPT !.used_at = tokens'[k].used_at]
       /\ Len(tokens') > Len(tokens)
            => /\ Len(tokens') = Len(tokens) + 1
               /\ tokens'[Len(tokens')].used_at = None
               /\ \A k \in 1..Len(tokens) : tokens[k].token # tokens'[Len(tokens')].token
       /\ \A k \in 1..Len(tokens') :
             (tokens'[k].used_at = None /\ ParseDate(tokens'[k].expires_at) >= clock')
                => /\ \A j \in 1..Len(tokens') :
                         LookupMatch(impl, tokens'[k].token, tokens'[j].token) <=> j = k
                   /\ RedeemVerdict(impl, tokens'[k], "user", clock') = None]_vars

\* two tokens were issued to one user; the first has been redeemed and a call
\* with the second has passed the checks
C21_Witness ==
    /\ Len(tokens) = 2
    /\ tokens[1].user_id = tokens[2].user_id
    /\ tokens[1].used_at # None
    /\ tokens[2].used_at = None
    /\ redeems[1].pc = "idp"
    /\ redeems[1].rec = tokens[2]

\* C22 as stated: a token row is bound to user U only by a request whose
\* email equals U's stored email.
C22_ExactEmail ==
    \A k \in 1..Len(tokens) :
        \E u \in Users : u.id = tokens[k].user_id /\ u.email = tokens[k].email

\* C23 as stated: the row a redemption selects carries exactly the string
\* that was presented.
C23_ExactToken ==
    /\ (returned # None /\ returned.rec # None) => returned.rec.token = returned.token
    /\ redeems[1].rec # None => redeems[1].rec.token = redeems[1].token

\* C25 as stated: when a redemption returns success, used_at of the row it
\* read is set.
C25_SuccessMeansMarked ==
    (returned # None /\ returned.response.success)
        => tokens[returned.rec.id].used_at # None

\* C26: a call gets to the password update of the identity provider only
\* with account type "user" and with a row of the table that was unused and
\* not expired when the call checked it; a password changes only in that
\* update and only for the user of that row; a call that returns failure
\* has changed no password.
C26_PasswordOnlyByLiveToken ==
    [][/\ redeems'[1].pc = "idp"
             => /\ redeems'[1].type = "user"
                /\ redeems'[1].rec # None
                /\ redeems'[1].rec.id \in 1..Len(tokens')
                /\ tokens'[redeems'[1].rec.id].user_id = redeems'[1].rec.user_id
                /\ redeems'[1].rec.used_at = None
                /\ ParseDate(redeems'[1].rec.expires_at) >= redeems'[1].checkedAt
       /\ \A u \in UserIds :
             password'[u] # password[u]
                => (redeems[1].pc = "idp" /\ redeems[1].rec.user_id = u)
       /\ (returned' # None /\ ~returned'.response.success)
             => /\ password' = password
                /\ returned'.idp # "ok"]_vars

\* a redemption has succeeded and the password of the row's user is the new one
C26_Witness ==
    /\ returned # None
    /\ returned.response.success
    /\ returned.type = "user"
    /\ password[returned.rec.user_id] = "p1"
    /\ \A u \in UserIds \ { returned.rec.user_id } : password[u] = "p0"

\* C29: the token row is in the table before the email is dispatched, and a
\* failed dispatch returns the failure with the generic message while the
\* row stays as it was inserted: bound to the user, unused, and expiring one
\* validity period after its issuance.
C29_RowSurvivesFailedEmail ==
    /\ request.pc = "email" => (/\ request.created # None
                                /\ request.created.id \in 1..Len(tokens)
                                /\ tokens[request.created.id] = request.created)
    /\ (request.pc = "done" /\ request.fail = "email")
          => /\ ~request.response.success
             /\ request.response.message = GenericMessage
             /\ request.created.id \in 1..Len(tokens)
             /\ tokens[request.created.id] = request.created
             /\ request.created.user_id = request.userId
             /\ request.created.used_at = None
             /\ ParseDate(request.created.expires_at) = request.issuedAt + TokenTtlMs

\* a request whose email dispatch failed has returned, and its row is there
C29_Witness ==
    /\ request.pc = "done"
    /\ request.fail = "email"
    /\ ~request.response.success
    /\ Len(tokens) = 1
    /\ tokens[1].used_at = None
    /\ tokens[1].token = request.token

----------------------------------------------------------------------------
(* Claims about the timers of the watcher *)

\* C27 as stated: at most one periodic-validation interval is active at any
\* moment, and while the effect is live it is the one whose handle the
\* effect holds for its cleanup.
C27_OneInterval ==
    /\ Cardinality(ActiveIntervals) <= 1
    /\ effect.phase = "active" => ActiveIntervals = { effect.periodicValidation }

\* C30 as stated: every reconnect delay that is scheduled is one of 1000,
\* 2000, 4000 and 8000 ms, and so never below INITIAL_RECONNECT_DELAY.
C30_DelayAtLeastBase ==
    \A k \in PendingTimeouts :
        /\ timeouts[k].delay >= INITIAL_RECONNECT_DELAY
        /\ \E n \in 1..(MAX_RECONNECT_ATTEMPTS - 1) :
              timeouts[k].delay = INITIAL_RECONNECT_DELAY * 2 ^ (n - 1)

----------------------------------------------------------------------------
(* Claims about the auth-state effect *)

\* C24 as stated: once the provider has mounted, loading becomes false at
\* some later moment, whatever cleanups and re-runs of the effect happen
\* while the initial session check is in flight.
C24_LoadingEnds == (auth.provider # "none") ~> ~auth.loading

\* C28 as stated: every auth state change reported after the initial check
\* has completed is applied to the local session at some later moment, by
\* the listener or by a later read of the provider's session.
C28_ChangesApplied == (idp.reportedAt > auth.applied) ~> (idp.reportedAt <= auth.applied)

====
